---- MODULE Spec2Model ----
(***************************************************************************)
(* Routing and rendering pipeline of the documentation generator:          *)
(*   - KindFolderHtmlOutputRouter (src/lib/output/html-output.ts 464-646)  *)
(*   - Renderer.writeOutputs / writeOutput (html-output.ts 1161-1391)      *)
(* The reflection graph is a small tree of numbered nodes; node 0 is the   *)
(* ProjectReflection.                                                      *)
(***************************************************************************)
EXTENDS Integers, Sequences, FiniteSets, TLC

\* ------------------------------------------------------------------ bounds
MaxNodes == 3
MaxTargets == 2

\* ------------------------------------------------------- reflection graph
Project == 0
NoRefl == 0 - 1

DeclarationKinds == {"Class", "Module", "Method"}
SignatureKinds == {"CallSignature"}
OtherKinds == {"Parameter"}
Kinds == DeclarationKinds \cup SignatureKinds \cup OtherKinds
Aliases == {"A", "B"}

\* kindMappings: ReflectionKind -> directory
kindMappings ==
  [k \in {"Class", "Interface", "Enum", "Namespace", "Module", "TypeAlias",
          "Function", "Variable"} |->
     CASE k = "Class" -> "classes"
       [] k = "Interface" -> "interfaces"
       [] k = "Enum" -> "enums"
       [] k = "Namespace" -> "modules"
       [] k = "Module" -> "modules"
       [] k = "TypeAlias" -> "types"
       [] k = "Function" -> "functions"
       [] k = "Variable" -> "variables"]

Nodes(g) == 1 .. g.n
IsDeclaration(g, r) == r \in Nodes(g) /\ g.kind[r] \in DeclarationKinds
IsSignature(g, r) == r \in Nodes(g) /\ g.kind[r] \in SignatureKinds

\* The graphs the converter can produce: parents precede children, signatures
\* hang off declarations, parameters off signatures, declarations off the
\* project or another declaration; project.children is absent only when the
\* project has no child. Nodes are numbered level by level (a node's parent
\* is never before the parent of the node numbered before it), which names
\* every ordered tree once, and the first node carries the first alias, the
\* aliases being interchangeable.
CanAttach(g, p, k, a) ==
  /\ \/ k \in DeclarationKinds /\ (p = Project \/ IsDeclaration(g, p))
     \/ k \in SignatureKinds /\ IsDeclaration(g, p)
     \/ k \in OtherKinds /\ IsSignature(g, p)
  /\ g.n > 0 => p >= g.parent[g.n]
  /\ g.n = 0 => a = "A"

Attach(g, p, k, a) ==
  [n |-> g.n + 1, parent |-> Append(g.parent, p), kind |-> Append(g.kind, k),
   alias |-> Append(g.alias, a), hasChildren |-> TRUE]

EmptyGraph(hasChildren) ==
  [n |-> 0, parent |-> <<>>, kind |-> <<>>, alias |-> <<>>,
   hasChildren |-> hasChildren]

RECURSIVE Graphs(_)
Graphs(n) ==
  IF n = 0 THEN {EmptyGraph(TRUE)}
  ELSE {Attach(g, p, k, a) : <<g, p, k, a>> \in
          {x \in Graphs(n - 1) \X (0 .. (n - 1)) \X Kinds \X Aliases :
             CanAttach(x[1], x[2], x[3], x[4])}}

GraphsUpTo(max) ==
  {EmptyGraph(FALSE)} \cup UNION {Graphs(n) : n \in 0 .. max}

\* Reflection.traverse: the children of r in declaration order
RECURSIVE ChildrenFrom(_, _, _)
ChildrenFrom(g, p, i) ==
  IF i > g.n THEN <<>>
  ELSE (IF g.parent[i] = p THEN <<i>> ELSE <<>>) \o ChildrenFrom(g, p, i + 1)

Children(g, p) == ChildrenFrom(g, p, 1)

\* Reflection.getAlias: the alias derived from the reflection's name
getAlias(g, r) == g.alias[r]

\* c.kindOf(ReflectionKind.Module)
kindOfModule(g, r) == g.kind[r] = "Module"

\* ------------------------------------------------------------------ paths
RECURSIVE Join(_)
Join(segs) ==
  IF Len(segs) = 0 THEN ""
  ELSE IF Len(segs) = 1 THEN segs[1]
  ELSE segs[1] \o "/" \o Join(Tail(segs))

\* readme option values; hasReadme is !readme.endsWith("none")
ReadmeValues == {"none", "README.md", "docs/none"}
EndsWithNone == {"none", "docs/none"}
\* the readme option never read
hasReadmeAlways(readme) == TRUE

hasReadme(readme) == readme \notin EndsWithNone

\* ----------------------------------------------------------------- router
HtmlOutputDocument(model, filename, template) ==
  [model |-> model, filename |-> filename, template |-> template]

EmptyRouter == [outputs |-> <<>>, urls |-> <<>>, anchors |-> <<>>]

MapSet(m, k, v) == (k :> v) @@ m
MapGet(m, k) == IF k \in DOMAIN m THEN m[k] ELSE "undefined"

\* getUrl without the chain of parents: the reflection's own alias
getUrlAliasOnly(g, r, relative) == getAlias(g, r)

\* getUrl never stopping at the relative reflection
RECURSIVE getUrlIgnoresRelative(_, _, _)
getUrlIgnoresRelative(g, r, relative) ==
  LET url == getAlias(g, r)
  IN IF r # Project /\ g.parent[r] # Project
     THEN getUrlIgnoresRelative(g, g.parent[r], relative) \o "." \o url
     ELSE url

RECURSIVE getUrl(_, _, _)
getUrl(g, r, relative) ==
  LET url == getAlias(g, r)
  IN IF r # Project /\ g.parent[r] # relative /\ g.parent[r] # Project
     THEN getUrl(g, g.parent[r], relative) \o "." \o url
     ELSE url

RECURSIVE applyAnchorUrl(_, _, _, _)
RECURSIVE traverseAnchor(_, _, _, _)
\* applyAnchorUrl without the instanceof test: every reflection is anchored
applyAnchorUrlAnyReflection(g, r, container, st) ==
  LET anchor == getUrl(g, r, container)
      st1 == [st EXCEPT
                !.urls = MapSet(@, r, MapGet(st.urls, container) \o "#" \o anchor),
                !.anchors = MapSet(@, r, anchor)]
  IN traverseAnchor(g, Children(g, r), container, st1)

\* applyAnchorUrl building the URL from the parent's URL, not the container's
applyAnchorUrlFromParent(g, r, container, st) ==
  IF ~ (IsDeclaration(g, r) \/ IsSignature(g, r)) THEN st
  ELSE LET anchor == getUrl(g, r, container)
           st1 == [st EXCEPT
                     !.urls = MapSet(@, r, MapGet(st.urls, g.parent[r]) \o "#" \o anchor),
                     !.anchors = MapSet(@, r, anchor)]
       IN traverseAnchor(g, Children(g, r), container, st1)

applyAnchorUrl(g, r, container, st) ==
  IF ~ (IsDeclaration(g, r) \/ IsSignature(g, r)) THEN st
  ELSE LET anchor == getUrl(g, r, container)
           st1 == [st EXCEPT
                     !.urls = MapSet(@, r, MapGet(st.urls, container) \o "#" \o anchor),
                     !.anchors = MapSet(@, r, anchor)]
       IN traverseAnchor(g, Children(g, r), container, st1)

traverseAnchor(g, cs, container, st) ==
  IF cs = <<>> THEN st
  ELSE traverseAnchor(g, Tail(cs), container,
                      applyAnchorUrl(g, Head(cs), container, st))

RECURSIVE buildOutputs(_, _, _)
RECURSIVE traverseBuild(_, _, _, _)
buildOutputs(g, r, st) ==
  IF g.kind[r] \in DOMAIN kindMappings
  THEN LET url == <<kindMappings[g.kind[r]], getUrl(g, r, NoRefl) \o ".html">>
           st1 == [st EXCEPT
                     !.outputs = Append(@, HtmlOutputDocument(r, url, "reflection")),
                     !.urls = MapSet(@, r, Join(url))]
       IN traverseBuild(g, Children(g, r), r, st1)
  ELSE applyAnchorUrl(g, r, g.parent[r], st)

\* the traversal of buildOutputs anchoring every child, declarations included
traverseBuildAnchorsAll(g, cs, reflection, st) ==
  IF cs = <<>> THEN st
  ELSE traverseBuild(g, Tail(cs), reflection,
         applyAnchorUrl(g, Head(cs), reflection, st))

traverseBuild(g, cs, reflection, st) ==
  IF cs = <<>> THEN st
  ELSE traverseBuild(g, Tail(cs), reflection,
         IF IsDeclaration(g, Head(cs))
         THEN buildOutputs(g, Head(cs), st)
         ELSE applyAnchorUrl(g, Head(cs), reflection, st))

RECURSIVE forEachChild(_, _, _)
forEachChild(g, cs, st) ==
  IF cs = <<>> THEN st
  ELSE forEachChild(g, Tail(cs), buildOutputs(g, Head(cs), st))

\* some() in place of every()
someChildIsModule(g) ==
  g.hasChildren /\ \E r \in Nodes(g) : g.parent[r] = Project /\ kindOfModule(g, r)

\* project.children?.every((c) => c.kindOf(ReflectionKind.Module))
everyChildIsModule(g) ==
  g.hasChildren /\ \A r \in Nodes(g) : g.parent[r] = Project => kindOfModule(g, r)

\* buildDocuments appending to an outputs array kept from the previous call
buildDocumentsKeepsOutputs(g, readme, st) ==
  LET st0 ==
        IF ~ hasReadme(readme)
        THEN [st EXCEPT
                !.urls = MapSet(@, Project, "index.html"),
                !.outputs = @ \o <<HtmlOutputDocument(Project, <<"index.html">>, "reflection")>>]
        ELSE IF everyChildIsModule(g)
        THEN [st EXCEPT
                !.urls = MapSet(@, Project, "index.html"),
                !.outputs = @ \o <<HtmlOutputDocument(Project, <<"index.html">>, "index")>>]
        ELSE [st EXCEPT
                !.urls = MapSet(@, Project, "modules.html"),
                !.outputs = @ \o <<HtmlOutputDocument(Project, <<"index.html">>, "index"),
                              HtmlOutputDocument(Project, <<"modules.html">>, "reflection")>>]
  IN forEachChild(g, Children(g, Project), st0)

\* KindFolderHtmlOutputRouter.buildDocuments on the router st: outputs is a
\* new array, the urls and anchors maps are the router's
buildDocumentsOn(g, readme, st) ==
  LET st0 ==
        IF ~ hasReadme(readme)
        THEN [st EXCEPT
                !.urls = MapSet(@, Project, "index.html"),
                !.outputs = <<HtmlOutputDocument(Project, <<"index.html">>, "reflection")>>]
        ELSE IF everyChildIsModule(g)
        THEN [st EXCEPT
                !.urls = MapSet(@, Project, "index.html"),
                !.outputs = <<HtmlOutputDocument(Project, <<"index.html">>, "index")>>]
        ELSE [st EXCEPT
                !.urls = MapSet(@, Project, "modules.html"),
                !.outputs = <<HtmlOutputDocument(Project, <<"index.html">>, "index"),
                              HtmlOutputDocument(Project, <<"modules.html">>, "reflection")>>]
  IN forEachChild(g, Children(g, Project), st0)

\* buildDocuments on a freshly constructed router
buildDocuments(g, readme) == buildDocumentsOn(g, readme, EmptyRouter)

\* HtmlOutputRouter.getDocuments on the router rt: the documents plus the
\* set of their models
getDocumentsOn(g, readme, rt) ==
  LET st == buildDocumentsOn(g, readme,
              [outputs |-> rt.outputs, urls |-> rt.urls, anchors |-> rt.anchors])
  IN [outputs |-> st.outputs, urls |-> st.urls, anchors |-> st.anchors,
      hasOwnDocument |-> {st.outputs[i].model : i \in DOMAIN st.outputs}]

\* HtmlOutputRouter.getDocuments on a freshly constructed router
getDocuments(g, readme) ==
  LET st == buildDocuments(g, readme)
  IN [outputs |-> st.outputs, urls |-> st.urls, anchors |-> st.anchors,
      hasOwnDocument |-> {st.outputs[i].model : i \in DOMAIN st.outputs}]

\* JsonOutputRouter.getDocuments
jsonGetDocuments ==
  [outputs |-> <<HtmlOutputDocument(Project, <<>>, "json")>>,
   urls |-> <<>>, anchors |-> <<>>, hasOwnDocument |-> {}]

\* --------------------------------------------------------------- renderer
VARIABLES
  project,               \* the ProjectReflection graph being rendered
  readme,                \* the "readme" option
  targets,               \* OutputOptions[]: the type of each target; target i writes to path i
  cleanOutputDir,        \* the "cleanOutputDir" option
  pc,                    \* position in writeOutputs / writeOutput
  tgt,                   \* index of the target writeOutput is running for
  output,                \* Renderer.output
  constructed,           \* number of Output instances constructed so far
  router,                \* this.output.router with the documents it returned
  location,              \* HtmlOutputRouter._location
  docIdx,                \* position of the for-of loop over documents
  contents,              \* pageEvent.contents
  preRenderAsyncJobs,
  postRenderAsyncJobs,
  fs,                    \* per target path: the files under it
  log,                   \* logger.error / logger.warn calls
  trace,                 \* the steps taken so far, in order
  cacheBust,             \* the "cacheBust" option
  absoluteToRelativePathMap,  \* HtmlOutputRouter._absoluteToRelativePathMap
  relativeUrlCall,       \* the last relativeUrl call: its arguments and result
  calls,                 \* number of relativeUrl calls so far
  outputs,               \* Renderer.outputs: the registry of named Output constructors
  defineOutputCall,      \* the last defineOutput call: its arguments and outcome
  hooks,                 \* HtmlOutput.hooks: the subscriptions held
  navigationCache,       \* HtmlOutput._navigationCache
  buildNavigationCalls,  \* number of buildNavigation invocations on this.output
  getNavigationCall,     \* the last getNavigation call: its number, argument and result
  plugins,               \* the plugins argument of loadPlugins: how each one behaves
  pluginIdx,             \* position of the for-of loop of loadPlugins
  inflight               \* the writeOutput calls in flight at once, each with its locals

vars ==
  <<project, readme, targets, cleanOutputDir, pc, tgt, output, constructed,
    router, location, docIdx, contents, preRenderAsyncJobs,
    postRenderAsyncJobs, fs, log, trace, cacheBust,
    absoluteToRelativePathMap, relativeUrlCall, calls, outputs,
    defineOutputCall, hooks, navigationCache, buildNavigationCalls,
    getNavigationCall, plugins, pluginIdx, inflight>>

pluginVars == <<plugins, pluginIdx>>

registryVars == <<outputs, defineOutputCall>>

navVars == <<navigationCache, buildNavigationCalls, getNavigationCall>>

\* _navigationCache of a new HtmlOutput: undefined
NoNavigation == [defined |-> FALSE, tree |-> <<>>]
NoNavigationCall == [n |-> 0, project |-> 0, result |-> <<>>, built |-> FALSE]

linkVars == <<cacheBust, absoluteToRelativePathMap, relativeUrlCall, calls>>

NoCall ==
  [location |-> <<>>, absolute |-> <<>>, cacheBust |-> FALSE, path |-> "undefined",
   cbs |-> {}]

\* html-output.ts 1162-1168: the registry a Renderer is constructed with
builtinOutputs == [html |-> "DefaultHtmlOutput", json |-> "JsonOutput"]
OutputTypes == DOMAIN builtinOutputs \cup {"custom"}

NoDefine == [name |-> "", ctor |-> "", before |-> <<>>, threw |-> FALSE]

NoOutput == [type |-> "undefined", id |-> 0]
NoRouter == [outputs |-> <<>>, urls |-> <<>>, anchors |-> <<>>, hasOwnDocument |-> {}]

\* output instanceof HtmlOutput / DefaultHtmlOutput
IsHtmlOutput(o) == o.type = "html"

\* what lies under every output path before the run
StaleFiles ==
  {[name |-> "stale.txt", content |-> "stale"],
   [name |-> "index.html", content |-> "stale"]}

\* the projects rendered: no child; a readme and one class; two classes that
\* share an alias
RenderProjects ==
  { [g |-> EmptyGraph(TRUE), readme |-> "none"],
    [g |-> Attach(EmptyGraph(TRUE), Project, "Class", "A"), readme |-> "README.md"],
    [g |-> Attach(Attach(EmptyGraph(TRUE), Project, "Class", "A"), Project, "Class", "A"),
     readme |-> "none"] }

TargetLists == UNION {[1 .. n -> OutputTypes] : n \in 1 .. MaxTargets}

Init ==
  /\ \E p \in RenderProjects : project = p.g /\ readme = p.readme
  /\ targets \in TargetLists
  /\ cleanOutputDir \in BOOLEAN
  /\ pc = "begin"
  /\ tgt = 1
  /\ output = NoOutput
  /\ constructed = 0
  /\ router = NoRouter
  /\ location = <<>>
  /\ docIdx = 0
  /\ contents = ""
  /\ preRenderAsyncJobs = <<"pushingJob", "userJob">>
  /\ postRenderAsyncJobs = <<"userPostJob">>
  /\ fs = [t \in DOMAIN targets |-> StaleFiles]
  /\ log = <<>>
  /\ trace = <<>>
  /\ cacheBust = FALSE
  /\ absoluteToRelativePathMap = <<>>
  /\ relativeUrlCall = NoCall
  /\ calls = 0
  /\ outputs = builtinOutputs
  /\ defineOutputCall = NoDefine
  /\ hooks = {}
  /\ navigationCache = NoNavigation
  /\ buildNavigationCalls = 0
  /\ getNavigationCall = NoNavigationCall
  /\ plugins = <<>>
  /\ pluginIdx = 0
  /\ inflight = <<>>

Ev(e, d) == [ev |-> e, t |-> tgt, d |-> d, o |-> output.id, job |-> ""]
Logged(level, msg, d) == [level |-> level, msg |-> msg, t |-> tgt, d |-> d]

documents == router.outputs

\* writeFileSync(join(output.path, name), content)
writeFile(files, name, content) ==
  {f \in files : f.name # name} \cup {[name |-> name, content |-> content]}

\* the files an async job writes under event.outputDirectory
JobFiles(job, o) ==
  IF job = "userJob"
  THEN {[name |-> "assets/prepared.js", content |-> "prepared"]}
  ELSE IF job = "searchIndex" /\ IsHtmlOutput(o)
  THEN {[name |-> "assets/search.js", content |-> "searchData"]}
  ELSE {}

RECURSIVE RunJobs(_, _, _)
RunJobs(jobs, o, files) ==
  IF jobs = <<>> THEN files
  ELSE RunJobs(Tail(jobs), o,
               {f \in files : \A w \in JobFiles(Head(jobs), o) : f.name # w.name}
                 \cup JobFiles(Head(jobs), o))

JobEvents(kind, jobs) ==
  [i \in DOMAIN jobs |-> [Ev(kind, 0) EXCEPT !.job = jobs[i]]]

\* an error thrown inside writeOutput: nothing catches it, the promise
\* rejects and writeOutputs rejects with it
Throws(step) ==
  /\ pc' = "rejected"
  /\ trace' = trace \o step \o <<Ev("throw", 0)>>

\* writeOutput returns; writeOutputs goes on with the next target
Returns(steps) ==
  /\ trace' = trace \o steps \o <<Ev("return", 0)>>
  /\ IF tgt < Len(targets)
     THEN tgt' = tgt + 1 /\ pc' = "begin"
     ELSE tgt' = tgt /\ pc' = "done"

\* html-output.ts 1285-1288: this.trigger(RendererEvent.BEGIN, event), with
\* the listeners of JavascriptIndexPlugin and NavigationPlugin
TriggerBegin ==
  /\ pc = "begin"
  /\ trace' = Append(trace, Ev("beginRender", 0))
  /\ preRenderAsyncJobs' =
       IF IsHtmlOutput(output)
       THEN preRenderAsyncJobs \o <<"searchIndex", "navigationIndex">>
       ELSE preRenderAsyncJobs
  /\ pc' = "preJobs"
  /\ UNCHANGED <<linkVars, registryVars, hooks>>
  /\ UNCHANGED navVars
  /\ UNCHANGED <<pluginVars, inflight>>
  /\ UNCHANGED <<project, readme, targets, cleanOutputDir, tgt, output,
                 constructed, router, location, docIdx, contents,
                 postRenderAsyncJobs, fs, log>>

\* the jobs pushed onto the list while the batch runs: "pushingJob" pushes
\* "lateJob" when it is called
PushedJobs(jobs) ==
  [i \in DOMAIN SelectSeq(jobs, LAMBDA j : j = "pushingJob") |-> "lateJob"]

\* the events of a batch: each job called in turn, a push recorded right
\* after the call of the job that made it
RECURSIVE BatchEvents(_, _, _)
BatchEvents(kind, jobs, pushed) ==
  IF jobs = <<>> THEN <<>>
  ELSE IF Head(jobs) = "pushingJob" /\ pushed # <<>>
  THEN <<[Ev(kind, 0) EXCEPT !.job = Head(jobs)],
         [Ev("pushJob", 0) EXCEPT !.job = Head(pushed)]>>
         \o BatchEvents(kind, Tail(jobs), Tail(pushed))
  ELSE <<[Ev(kind, 0) EXCEPT !.job = Head(jobs)]>>
         \o BatchEvents(kind, Tail(jobs), pushed)

\* html-output.ts 1351: this.preRenderAsyncJobs.map((job) => job(output))
\* calls the jobs the list held when map was entered
Batch(jobs) == jobs

\* html-output.ts 1289, 1350-1353: runPreRenderJobs
RunPreRenderJobs ==
  /\ pc = "preJobs"
  /\ fs' = [fs EXCEPT ![tgt] = RunJobs(Batch(preRenderAsyncJobs), output, @)]
  /\ \E ok \in BOOLEAN :
       IF ok \/ preRenderAsyncJobs = <<>>
       THEN /\ preRenderAsyncJobs' = <<>>
            /\ pc' = "resolve"
            /\ trace' = trace \o BatchEvents("preJob", Batch(preRenderAsyncJobs),
                                              PushedJobs(preRenderAsyncJobs))
       ELSE /\ preRenderAsyncJobs' = preRenderAsyncJobs \o PushedJobs(preRenderAsyncJobs)
            /\ Throws(BatchEvents("preJob", Batch(preRenderAsyncJobs),
                                  PushedJobs(preRenderAsyncJobs)))
  /\ UNCHANGED <<linkVars, registryVars, hooks>>
  /\ UNCHANGED navVars
  /\ UNCHANGED <<pluginVars, inflight>>
  /\ UNCHANGED <<project, readme, targets, cleanOutputDir, tgt, output,
                 constructed, router, location, docIdx, contents,
                 postRenderAsyncJobs, log>>

\* html-output.ts 1291-1299: look the constructor up, construct the Output
ResolveOutput ==
  /\ pc = "resolve"
  /\ IF targets[tgt] \notin DOMAIN outputs
     THEN /\ log' = Append(log, Logged("error", "Skipping output", 0))
          /\ Returns(<<Ev("skipped", 0)>>)
          /\ UNCHANGED <<output, constructed, hooks>>
     ELSE /\ output' = [type |-> targets[tgt], id |-> constructed + 1]
          /\ constructed' = constructed + 1
          /\ hooks' = {}
          /\ trace' = Append(trace, [Ev("construct", 0) EXCEPT !.o = constructed + 1])
          /\ pc' = "setup"
          /\ UNCHANGED <<log, tgt>>
  /\ UNCHANGED <<linkVars, registryVars>>
  /\ UNCHANGED navVars
  /\ UNCHANGED <<pluginVars, inflight>>
  /\ UNCHANGED <<project, readme, targets, cleanOutputDir, router, location,
                 docIdx, contents, preRenderAsyncJobs, postRenderAsyncJobs, fs>>

\* html-output.ts 1300: await this.output.setup(this.application)
Setup ==
  /\ pc = "setup"
  /\ \E ok \in BOOLEAN :
       IF ok
       THEN pc' = "route" /\ trace' = Append(trace, Ev("setup", 0))
       ELSE Throws(<<Ev("setup", 0)>>)
  /\ UNCHANGED <<linkVars, registryVars, hooks>>
  /\ UNCHANGED navVars
  /\ UNCHANGED <<pluginVars, inflight>>
  /\ UNCHANGED <<project, readme, targets, cleanOutputDir, tgt, output,
                 constructed, router, location, docIdx, contents,
                 preRenderAsyncJobs, postRenderAsyncJobs, fs, log>>

RouterDocuments(type, g, rd) ==
  IF type = "json" THEN jsonGetDocuments ELSE getDocuments(g, rd)

\* the output path taken for a directory whatever the router returned
severalDocumentsAlways(docs) == TRUE

\* html-output.ts 1306: documents.length > 1, the output path is a directory
severalDocuments(docs) == Len(docs) > 1

\* buildRouter handing back a router that still holds the memo of the
\* router before it
RouteKeepsMemo ==
  /\ pc = "route"
  /\ \E ok \in BOOLEAN :
       IF ok
       THEN /\ router' = RouterDocuments(output.type, project, readme)
            /\ trace' = Append(trace, Ev("getDocuments", 0))
            /\ location' = <<>>
            /\ docIdx' = 1
            /\ pc' = IF severalDocuments(router'.outputs) THEN "prepareDir"
                     ELSE IF Len(router'.outputs) = 0 THEN "endRender"
                     ELSE "page"
       ELSE /\ Throws(<<Ev("getDocuments", 0)>>)
            /\ UNCHANGED <<router, location, docIdx>>
  /\ UNCHANGED <<linkVars, registryVars, hooks>>
  /\ UNCHANGED navVars
  /\ UNCHANGED <<pluginVars, inflight>>
  /\ UNCHANGED <<project, readme, targets, cleanOutputDir, tgt, output,
                 constructed, contents, preRenderAsyncJobs,
                 postRenderAsyncJobs, fs, log>>

\* html-output.ts 1301-1304: buildRouter constructs a router, its memo of
\* relative paths empty (html-output.ts 473), then router.getDocuments(project)
Route ==
  /\ pc = "route"
  /\ \E ok \in BOOLEAN :
       IF ok
       THEN /\ router' = RouterDocuments(output.type, project, readme)
            /\ absoluteToRelativePathMap' = <<>>
            /\ trace' = Append(trace, Ev("getDocuments", 0))
            /\ location' = <<>>
            /\ docIdx' = 1
            /\ pc' = IF severalDocuments(router'.outputs) THEN "prepareDir"
                     ELSE IF Len(router'.outputs) = 0 THEN "endRender"
                     ELSE "page"
       ELSE /\ Throws(<<Ev("getDocuments", 0)>>)
            /\ UNCHANGED <<router, location, docIdx, absoluteToRelativePathMap>>
  /\ UNCHANGED <<cacheBust, relativeUrlCall, calls, registryVars, hooks>>
  /\ UNCHANGED navVars
  /\ UNCHANGED <<pluginVars, inflight>>
  /\ UNCHANGED <<project, readme, targets, cleanOutputDir, tgt, output,
                 constructed, contents, preRenderAsyncJobs,
                 postRenderAsyncJobs, fs, log>>

\* a recursive delete that leaves the files in place
rmLeavesFiles(files) == files

\* fs.promises.rm(directory, {recursive: true, force: true})
rmRecursive(files) == {}

\* prepareOutputDirectory without the catch around mkdirSync
PrepareOutputDirectoryUncaught ==
  /\ pc = "prepareDir"
  /\ \E rmOk \in BOOLEAN, mkdirOk \in BOOLEAN :
       IF cleanOutputDir /\ ~ rmOk
       THEN /\ log' = Append(log, Logged("warn", "Could not empty the output directory", 0))
            /\ trace' = trace \o <<Ev("rm", 0), Ev("dirFailed", 0)>>
            /\ pc' = "abort"
            /\ UNCHANGED fs
       ELSE /\ fs' = IF cleanOutputDir THEN [fs EXCEPT ![tgt] = rmRecursive(@)] ELSE fs
            /\ IF mkdirOk
               THEN /\ trace' = trace \o (IF cleanOutputDir THEN <<Ev("rm", 0)>> ELSE <<>>)
                                      \o <<Ev("mkdir", 0)>>
                    /\ pc' = "page"
                    /\ UNCHANGED log
               ELSE /\ Throws((IF cleanOutputDir THEN <<Ev("rm", 0)>> ELSE <<>>)
                                \o <<Ev("mkdir", 0), Ev("dirFailed", 0)>>)
                    /\ UNCHANGED log
  /\ UNCHANGED <<linkVars, registryVars, hooks>>
  /\ UNCHANGED navVars
  /\ UNCHANGED <<pluginVars, inflight>>
  /\ UNCHANGED <<project, readme, targets, cleanOutputDir, tgt, output,
                 constructed, router, location, docIdx, contents,
                 preRenderAsyncJobs, postRenderAsyncJobs>>

\* html-output.ts 1306-1309, 1367-1390: prepareOutputDirectory
PrepareOutputDirectory ==
  /\ pc = "prepareDir"
  /\ \E rmOk \in BOOLEAN, mkdirOk \in BOOLEAN :
       IF cleanOutputDir /\ ~ rmOk
       THEN /\ log' = Append(log, Logged("warn", "Could not empty the output directory", 0))
            /\ trace' = trace \o <<Ev("rm", 0), Ev("dirFailed", 0)>>
            /\ pc' = "abort"
            /\ UNCHANGED fs
       ELSE /\ fs' = IF cleanOutputDir THEN [fs EXCEPT ![tgt] = rmRecursive(@)] ELSE fs
            /\ IF mkdirOk
               THEN /\ trace' = trace \o (IF cleanOutputDir THEN <<Ev("rm", 0)>> ELSE <<>>)
                                      \o <<Ev("mkdir", 0)>>
                    /\ pc' = "page"
                    /\ UNCHANGED log
               ELSE /\ log' = Append(log, Logged("error", "Could not create output directory", 0))
                    /\ trace' = trace \o (IF cleanOutputDir THEN <<Ev("rm", 0)>> ELSE <<>>)
                                      \o <<Ev("mkdir", 0), Ev("dirFailed", 0)>>
                    /\ pc' = "abort"
  /\ UNCHANGED <<linkVars, registryVars, hooks>>
  /\ UNCHANGED navVars
  /\ UNCHANGED <<pluginVars, inflight>>
  /\ UNCHANGED <<project, readme, targets, cleanOutputDir, tgt, output,
                 constructed, router, location, docIdx, contents,
                 preRenderAsyncJobs, postRenderAsyncJobs>>

\* the abort path returning without the teardown call
AbortWithoutTeardown ==
  /\ pc = "abort"
  /\ output' = NoOutput
  /\ Returns(<<>>)
  /\ UNCHANGED <<linkVars, registryVars, hooks>>
  /\ UNCHANGED navVars
  /\ UNCHANGED <<pluginVars, inflight>>
  /\ UNCHANGED <<project, readme, targets, cleanOutputDir, constructed, router,
                 location, docIdx, contents, preRenderAsyncJobs,
                 postRenderAsyncJobs, fs, log>>

\* html-output.ts 1309-1313: teardown and return when the directory failed
AbortTeardown ==
  /\ pc = "abort"
  /\ \E ok \in BOOLEAN :
       IF ok
       THEN /\ output' = NoOutput
            /\ Returns(<<Ev("teardown", 0)>>)
       ELSE /\ Throws(<<Ev("teardown", 0)>>)
            /\ UNCHANGED <<output, tgt>>
  /\ UNCHANGED <<linkVars, registryVars, hooks>>
  /\ UNCHANGED navVars
  /\ UNCHANGED <<pluginVars, inflight>>
  /\ UNCHANGED <<project, readme, targets, cleanOutputDir, constructed, router,
                 location, docIdx, contents, preRenderAsyncJobs,
                 postRenderAsyncJobs, fs, log>>

\* posix.dirname(doc.filename), as path segments
dirname(filename) ==
  IF Len(filename) <= 1 THEN <<".">> ELSE SubSeq(filename, 1, Len(filename) - 1)

\* EventHooks.on(name, listener): one more subscription, here tagged with
\* the document during whose page it was made
hooksOn(hs, name, d) == hs \cup {[name |-> name, d |-> d]}

\* the loop going on to a document without telling the router
PageBeginKeepsLocation ==
  /\ pc = "page"
  /\ docIdx \in DOMAIN documents
  /\ UNCHANGED location
  /\ \E ok \in BOOLEAN :
       IF ok
       THEN /\ pc' = "render"
            /\ trace' = trace \o <<Ev("setCurrentDocument", docIdx), Ev("beginPage", docIdx)>>
       ELSE Throws(<<Ev("setCurrentDocument", docIdx), Ev("beginPage", docIdx)>>)
  /\ hooks' = IF IsHtmlOutput(output) THEN hooksOn(hooks, "head.end", docIdx) ELSE hooks
  /\ contents' = ""
  /\ UNCHANGED <<linkVars, registryVars>>
  /\ UNCHANGED navVars
  /\ UNCHANGED <<pluginVars, inflight>>
  /\ UNCHANGED <<project, readme, targets, cleanOutputDir, tgt, output,
                 constructed, router, docIdx, preRenderAsyncJobs,
                 postRenderAsyncJobs, fs, log>>

\* html-output.ts 1318-1322: router.setCurrentDocument(doc), PageEvent.BEGIN;
\* a plugin's beginPage listener subscribes to the "head.end" hook of an
\* HtmlOutput, as the listener of part_012 84-90 does
PageBegin ==
  /\ pc = "page"
  /\ docIdx \in DOMAIN documents
  /\ location' = dirname(documents[docIdx].filename)
  /\ \E ok \in BOOLEAN :
       IF ok
       THEN /\ pc' = "render"
            /\ trace' = trace \o <<Ev("setCurrentDocument", docIdx), Ev("beginPage", docIdx)>>
       ELSE Throws(<<Ev("setCurrentDocument", docIdx), Ev("beginPage", docIdx)>>)
  /\ hooks' = IF IsHtmlOutput(output) THEN hooksOn(hooks, "head.end", docIdx) ELSE hooks
  /\ contents' = ""
  /\ UNCHANGED <<linkVars, registryVars>>
  /\ UNCHANGED navVars
  /\ UNCHANGED <<pluginVars, inflight>>
  /\ UNCHANGED <<project, readme, targets, cleanOutputDir, tgt, output,
                 constructed, router, docIdx, preRenderAsyncJobs,
                 postRenderAsyncJobs, fs, log>>

\* Date.now() when the router was constructed
renderStartTime == 1700

\* URL_PREFIX = /^(http|ftp)s?:\/\//, on a URL split at "/"
URL_PREFIX(absolute) ==
  /\ Len(absolute) >= 2
  /\ absolute[1] \in {"http:", "https:", "ftp:", "ftps:"}
  /\ absolute[2] = ""

\* posix.resolve below the working directory: "." and empty segments
\* dropped, ".." removing the segment before it
RECURSIVE normalize(_, _)
normalize(segs, done) ==
  IF segs = <<>> THEN done
  ELSE IF Head(segs) \in {".", ""} THEN normalize(Tail(segs), done)
  ELSE IF Head(segs) = ".." /\ done # <<>> /\ done[Len(done)] # ".."
  THEN normalize(Tail(segs), SubSeq(done, 1, Len(done) - 1))
  ELSE normalize(Tail(segs), Append(done, Head(segs)))

RECURSIVE commonPrefix(_, _)
commonPrefix(a, b) ==
  IF a = <<>> \/ b = <<>> \/ Head(a) # Head(b) THEN 0
  ELSE 1 + commonPrefix(Tail(a), Tail(b))

\* posix.relative(from, to)
relative(from, to) ==
  LET f == normalize(from, <<>>)
      t == normalize(to, <<>>)
      k == commonPrefix(f, t)
  IN [i \in 1 .. (Len(f) - k) |-> ".."] \o SubSeq(t, k + 1, Len(t))

\* the targets relativeUrl is called with
LinkTargets ==
  {<<"functions", "foo.html">>, <<"classes", "bar.html">>, <<"classes">>,
   <<"assets", "style.css">>, <<"http:", "", "example.com">>,
   <<"c">>, <<"b:c">>}

\* filenames of documents a router of a custom output returns
CustomFilenames == {<<"a", "x.html">>, <<"a:b", "y.html">>}

\* the memo key `${this._location}:${absolute}`
memoKey(loc, absolute) == Join(loc) \o ":" \o Join(absolute)

\* html-output.ts 505-520: HtmlOutputRouter.relativeUrl, its result and the
\* memo it leaves
relativeUrl(absolute, cb) ==
  IF URL_PREFIX(absolute)
  THEN [path |-> Join(absolute), memo |-> absoluteToRelativePathMap]
  ELSE LET key == memoKey(location, absolute)
       IN IF key \in DOMAIN absoluteToRelativePathMap
          THEN [path |-> absoluteToRelativePathMap[key],
                memo |-> absoluteToRelativePathMap]
          ELSE LET rel == Join(relative(location, absolute))
                   path == IF rel = "" THEN "." ELSE rel
                   busted == IF cb /\ cacheBust
                             THEN path \o "?cache=" \o ToString(renderStartTime)
                             ELSE path
               IN [path |-> busted,
                   memo |-> MapSet(absoluteToRelativePathMap, key, busted)]

\* Output.render: the text of one document
render(o, doc) ==
  "<" \o o.type \o ":" \o doc.template \o ":" \o ToString(doc.model) \o ":"
      \o Join(doc.filename) \o ">"

\* html-output.ts 1323: pageEvent.contents = await this.output.render(doc);
\* the layout of an HtmlOutput links the stylesheet with
\* context.relativeURL("assets/style.css", true) (part_010 24)
Render ==
  /\ pc = "render"
  /\ \E ok \in BOOLEAN :
       IF ok
       THEN /\ contents' = render(output, documents[docIdx])
            /\ pc' = "pageEnd"
            /\ trace' = Append(trace, Ev("render", docIdx))
       ELSE /\ Throws(<<Ev("render", docIdx)>>)
            /\ UNCHANGED contents
  /\ IF IsHtmlOutput(output)
     THEN LET r == relativeUrl(<<"assets", "style.css">>, TRUE)
          IN /\ absoluteToRelativePathMap' = r.memo
             /\ relativeUrlCall' = [location |-> location,
                                    absolute |-> <<"assets", "style.css">>,
                                    cacheBust |-> TRUE, path |-> r.path,
                                    cbs |-> relativeUrlCall.cbs \cup {TRUE}]
             /\ calls' = calls + 1
     ELSE UNCHANGED <<absoluteToRelativePathMap, relativeUrlCall, calls>>
  /\ UNCHANGED <<cacheBust, registryVars, hooks>>
  /\ UNCHANGED navVars
  /\ UNCHANGED <<pluginVars, inflight>>
  /\ UNCHANGED <<project, readme, targets, cleanOutputDir, tgt, output,
                 constructed, router, location, docIdx, preRenderAsyncJobs,
                 postRenderAsyncJobs, fs, log>>

\* the for-of loop: the position after document i, and whether it is past
\* the last document
NextDocSkipsOne(i) == i + 2

NextDoc(i) == i + 1

LoopDoneAfterFirst(i, docs) == TRUE

LoopDone(i, docs) == i \notin DOMAIN docs

\* what a plugin's endPage listener appends to the page
EndPageMark == "<!-- endPage -->"

\* the endPage listeners handed a copy of the event, their changes lost
triggerPageEndOnCopy(o, c) == c

\* html-output.ts 1324: this.trigger(PageEvent.END, pageEvent) with a
\* plugin's listener that modifies pageEvent.contents (events.ts 59-63)
triggerPageEnd(o, c) == c \o EndPageMark

\* the write without its try/catch
PageEndWriteUncaught ==
  /\ pc = "pageEnd"
  /\ \E outcome \in {"written", "writeFails", "listenerThrows"} :
       CASE outcome = "listenerThrows" ->
              /\ Throws(<<Ev("endPage", docIdx)>>)
              /\ UNCHANGED <<fs, log, docIdx, contents>>
         [] outcome = "written" ->
              /\ contents' = triggerPageEnd(output, contents)
              /\ fs' = [fs EXCEPT ![tgt] =
                          writeFile(@, Join(documents[docIdx].filename), contents')]
              /\ trace' = trace \o <<Ev("endPage", docIdx), Ev("write", docIdx)>>
              /\ docIdx' = NextDoc(docIdx)
              /\ pc' = IF LoopDone(NextDoc(docIdx), documents) THEN "endRender" ELSE "page"
              /\ UNCHANGED log
         [] outcome = "writeFails" ->
              /\ contents' = triggerPageEnd(output, contents)
              /\ Throws(<<Ev("endPage", docIdx), Ev("writeFailed", docIdx)>>)
              /\ UNCHANGED <<fs, log, docIdx>>
  /\ UNCHANGED <<linkVars, registryVars, hooks>>
  /\ UNCHANGED navVars
  /\ UNCHANGED <<pluginVars, inflight>>
  /\ UNCHANGED <<project, readme, targets, cleanOutputDir, tgt, output,
                 constructed, router, location, preRenderAsyncJobs,
                 postRenderAsyncJobs>>

\* html-output.ts 1324-1334: PageEvent.END, then the write in its try/catch
PageEndWrite ==
  /\ pc = "pageEnd"
  /\ \E outcome \in {"written", "writeFails", "listenerThrows"} :
       CASE outcome = "listenerThrows" ->
              /\ Throws(<<Ev("endPage", docIdx)>>)
              /\ UNCHANGED <<fs, log, docIdx, contents>>
         [] outcome = "written" ->
              /\ contents' = triggerPageEnd(output, contents)
              /\ fs' = [fs EXCEPT ![tgt] =
                          writeFile(@, Join(documents[docIdx].filename), contents')]
              /\ trace' = trace \o <<Ev("endPage", docIdx), Ev("write", docIdx)>>
              /\ docIdx' = NextDoc(docIdx)
              /\ pc' = IF LoopDone(NextDoc(docIdx), documents) THEN "endRender" ELSE "page"
              /\ UNCHANGED log
         [] outcome = "writeFails" ->
              /\ contents' = triggerPageEnd(output, contents)
              /\ log' = Append(log, Logged("error", "Could not write", docIdx))
              /\ trace' = trace \o <<Ev("endPage", docIdx), Ev("writeFailed", docIdx)>>
              /\ docIdx' = NextDoc(docIdx)
              /\ pc' = IF LoopDone(NextDoc(docIdx), documents) THEN "endRender" ELSE "page"
              /\ UNCHANGED fs
  /\ UNCHANGED <<linkVars, registryVars, hooks>>
  /\ UNCHANGED navVars
  /\ UNCHANGED <<pluginVars, inflight>>
  /\ UNCHANGED <<project, readme, targets, cleanOutputDir, tgt, output,
                 constructed, router, location, preRenderAsyncJobs,
                 postRenderAsyncJobs>>

\* html-output.ts 1336: this.trigger(RendererEvent.END, event), with the
\* listener of AssetsPlugin copying the static assets
TriggerEnd ==
  /\ pc = "endRender"
  /\ trace' = Append(trace, Ev("endRender", 0))
  /\ fs' = IF IsHtmlOutput(output)
           THEN [fs EXCEPT ![tgt] = writeFile(@, "assets/style.css", "style")]
           ELSE fs
  /\ pc' = "teardown"
  /\ UNCHANGED <<linkVars, registryVars, hooks>>
  /\ UNCHANGED navVars
  /\ UNCHANGED <<pluginVars, inflight>>
  /\ UNCHANGED <<project, readme, targets, cleanOutputDir, tgt, output,
                 constructed, router, location, docIdx, contents,
                 preRenderAsyncJobs, postRenderAsyncJobs, log>>

\* the normal path going on to the post-render jobs without the teardown call
TeardownNotCalled ==
  /\ pc = "teardown"
  /\ pc' = "postJobs"
  /\ UNCHANGED <<linkVars, registryVars, hooks>>
  /\ UNCHANGED navVars
  /\ UNCHANGED <<pluginVars, inflight>>
  /\ UNCHANGED <<project, readme, targets, cleanOutputDir, tgt, output,
                 constructed, router, location, docIdx, contents,
                 preRenderAsyncJobs, postRenderAsyncJobs, fs, log, trace>>

\* html-output.ts 1337: await this.output.teardown(this.application)
Teardown ==
  /\ pc = "teardown"
  /\ \E ok \in BOOLEAN :
       IF ok
       THEN pc' = "postJobs" /\ trace' = Append(trace, Ev("teardown", 0))
       ELSE Throws(<<Ev("teardown", 0)>>)
  /\ UNCHANGED <<linkVars, registryVars, hooks>>
  /\ UNCHANGED navVars
  /\ UNCHANGED <<pluginVars, inflight>>
  /\ UNCHANGED <<project, readme, targets, cleanOutputDir, tgt, output,
                 constructed, router, location, docIdx, contents,
                 preRenderAsyncJobs, postRenderAsyncJobs, fs, log>>

\* html-output.ts 1338, 1355-1358: runPostRenderJobs
RunPostRenderJobs ==
  /\ pc = "postJobs"
  /\ fs' = [fs EXCEPT ![tgt] = RunJobs(postRenderAsyncJobs, output, @)]
  /\ \E ok \in BOOLEAN :
       IF ok \/ postRenderAsyncJobs = <<>>
       THEN /\ postRenderAsyncJobs' = <<>>
            /\ pc' = "finish"
            /\ trace' = trace \o JobEvents("postJob", postRenderAsyncJobs)
       ELSE /\ UNCHANGED postRenderAsyncJobs
            /\ Throws(JobEvents("postJob", postRenderAsyncJobs))
  /\ UNCHANGED <<linkVars, registryVars, hooks>>
  /\ UNCHANGED navVars
  /\ UNCHANGED <<pluginVars, inflight>>
  /\ UNCHANGED <<project, readme, targets, cleanOutputDir, tgt, output,
                 constructed, router, location, docIdx, contents,
                 preRenderAsyncJobs, log>>

\* html-output.ts 1340-1347: the closing log lines, this.output = undefined
Finish ==
  /\ pc = "finish"
  /\ output' = NoOutput
  /\ Returns(<<Ev("wrote", 0)>>)
  /\ UNCHANGED <<linkVars, registryVars, hooks>>
  /\ UNCHANGED navVars
  /\ UNCHANGED <<pluginVars, inflight>>
  /\ UNCHANGED <<project, readme, targets, cleanOutputDir, constructed, router,
                 location, docIdx, contents, preRenderAsyncJobs,
                 postRenderAsyncJobs, fs, log>>

Next ==
  \/ TriggerBegin
  \/ RunPreRenderJobs
  \/ ResolveOutput
  \/ Setup
  \/ Route
  \/ PrepareOutputDirectory
  \/ AbortTeardown
  \/ PageBegin
  \/ Render
  \/ PageEndWrite
  \/ TriggerEnd
  \/ Teardown
  \/ RunPostRenderJobs
  \/ Finish

Spec == Init /\ [][Next]_vars

\* ------------------------------------------------- routing on its own
InitRouter ==
  /\ project \in GraphsUpTo(MaxNodes)
  /\ readme \in ReadmeValues
  /\ targets = <<"html">>
  /\ cleanOutputDir = FALSE
  /\ pc = "unrouted"
  /\ tgt = 1
  /\ output = NoOutput
  /\ constructed = 0
  /\ router = NoRouter
  /\ location = <<>>
  /\ docIdx = 0
  /\ contents = ""
  /\ preRenderAsyncJobs = <<>>
  /\ postRenderAsyncJobs = <<>>
  /\ fs = [t \in DOMAIN targets |-> {}]
  /\ log = <<>>
  /\ trace = <<>>
  /\ cacheBust = FALSE
  /\ absoluteToRelativePathMap = <<>>
  /\ relativeUrlCall = NoCall
  /\ calls = 0
  /\ outputs = builtinOutputs
  /\ defineOutputCall = NoDefine
  /\ hooks = {}
  /\ navigationCache = NoNavigation
  /\ buildNavigationCalls = 0
  /\ getNavigationCall = NoNavigationCall
  /\ plugins = <<>>
  /\ pluginIdx = 0
  /\ inflight = <<>>

\* HtmlOutputRouter.getDocuments(project), on a fresh router and then once
\* more on the same router
RouterGetDocuments ==
  /\ pc \in {"unrouted", "routed"}
  /\ router' = getDocumentsOn(project, readme, router)
  /\ pc' = IF pc = "unrouted" THEN "routed" ELSE "rerouted"
  /\ UNCHANGED <<linkVars, registryVars, hooks>>
  /\ UNCHANGED navVars
  /\ UNCHANGED <<pluginVars, inflight>>
  /\ UNCHANGED <<project, readme, targets, cleanOutputDir, tgt, output,
                 constructed, location, docIdx, contents, preRenderAsyncJobs,
                 postRenderAsyncJobs, fs, log, trace>>

NextRouter == RouterGetDocuments

SpecRouter == InitRouter /\ [][NextRouter]_vars

\* ------------------------------------------------- link resolution
MaxCalls == 3

\* a router that has returned the documents of a project with a readme and
\* one class: index.html, modules.html, classes/A.html
InitLinks ==
  /\ project = Attach(EmptyGraph(TRUE), Project, "Class", "A")
  /\ readme = "README.md"
  /\ router = getDocuments(project, readme)
  /\ cacheBust \in BOOLEAN
  /\ targets = <<"html">>
  /\ cleanOutputDir = FALSE
  /\ pc = "routed"
  /\ tgt = 1
  /\ output = NoOutput
  /\ constructed = 0
  /\ location = <<>>
  /\ docIdx = 0
  /\ contents = ""
  /\ preRenderAsyncJobs = <<>>
  /\ postRenderAsyncJobs = <<>>
  /\ fs = [t \in DOMAIN targets |-> {}]
  /\ log = <<>>
  /\ trace = <<>>
  /\ absoluteToRelativePathMap = <<>>
  /\ relativeUrlCall = NoCall
  /\ calls = 0
  /\ outputs = builtinOutputs
  /\ defineOutputCall = NoDefine
  /\ hooks = {}
  /\ navigationCache = NoNavigation
  /\ buildNavigationCalls = 0
  /\ getNavigationCall = NoNavigationCall
  /\ plugins = <<>>
  /\ pluginIdx = 0
  /\ inflight = <<>>

\* html-output.ts 484-486: HtmlOutputRouter.setCurrentDocument(doc)
SetCurrentDocument ==
  /\ pc = "routed"
  /\ \E f \in {router.outputs[i].filename : i \in DOMAIN router.outputs}
                \cup CustomFilenames :
       location' = dirname(f)
  /\ UNCHANGED <<linkVars, registryVars, hooks>>
  /\ UNCHANGED navVars
  /\ UNCHANGED <<pluginVars, inflight>>
  /\ UNCHANGED <<project, readme, targets, cleanOutputDir, pc, tgt, output,
                 constructed, router, docIdx, contents, preRenderAsyncJobs,
                 postRenderAsyncJobs, fs, log, trace>>

\* html-output.ts 505-520: a call of relativeUrl(absolute, cacheBust)
RelativeUrl ==
  /\ pc = "routed"
  /\ calls < MaxCalls
  /\ \E absolute \in LinkTargets, cb \in BOOLEAN :
       LET r == relativeUrl(absolute, cb)
       IN /\ absoluteToRelativePathMap' = r.memo
          /\ relativeUrlCall' = [location |-> location, absolute |-> absolute,
                                 cacheBust |-> cb, path |-> r.path,
                                 cbs |-> relativeUrlCall.cbs \cup {cb}]
  /\ calls' = calls + 1
  /\ UNCHANGED <<project, readme, targets, cleanOutputDir, pc, tgt, output,
                 constructed, router, location, docIdx, contents,
                 preRenderAsyncJobs, postRenderAsyncJobs, fs, log, trace,
                 cacheBust, hooks>>
  /\ UNCHANGED registryVars
  /\ UNCHANGED navVars
  /\ UNCHANGED <<pluginVars, inflight>>

NextLinks ==
  \/ SetCurrentDocument
  \/ RelativeUrl

SpecLinks == InitLinks /\ [][NextLinks]_vars

\* ------------------------------------------------- the output registry
\* the names plugins define outputs under, and the constructors they pass
OutputNames == {"html", "json", "custom", "html:open-web-analytics"}
OutputCtors == {"DefaultHtmlOutput", "JsonOutput", "MyOutput"}

\* defineOutput storing the constructor whether or not the name is taken
defineOutputOverwrites(reg, name, ctor) ==
  [outputs |-> MapSet(reg, name, ctor), threw |-> FALSE]

\* html-output.ts 1219-1230: Renderer.defineOutput(name, output), the
\* registry it leaves and whether it threw
defineOutput(reg, name, ctor) ==
  IF name \in DOMAIN reg
  THEN [outputs |-> reg, threw |-> TRUE]
  ELSE [outputs |-> MapSet(reg, name, ctor), threw |-> FALSE]

\* a Renderer as constructed, plugins about to be loaded
InitRegistry ==
  /\ project = EmptyGraph(TRUE)
  /\ readme = "none"
  /\ targets = <<"html">>
  /\ cleanOutputDir = FALSE
  /\ pc = "load"
  /\ tgt = 1
  /\ output = NoOutput
  /\ constructed = 0
  /\ router = NoRouter
  /\ location = <<>>
  /\ docIdx = 0
  /\ contents = ""
  /\ preRenderAsyncJobs = <<>>
  /\ postRenderAsyncJobs = <<>>
  /\ fs = [t \in DOMAIN targets |-> {}]
  /\ log = <<>>
  /\ trace = <<>>
  /\ cacheBust = FALSE
  /\ absoluteToRelativePathMap = <<>>
  /\ relativeUrlCall = NoCall
  /\ calls = 0
  /\ outputs = builtinOutputs
  /\ defineOutputCall = NoDefine
  /\ hooks = {}
  /\ navigationCache = NoNavigation
  /\ buildNavigationCalls = 0
  /\ getNavigationCall = NoNavigationCall
  /\ plugins = <<>>
  /\ pluginIdx = 0
  /\ inflight = <<>>

\* part_012 15-17: a plugin's load calling app.renderer.defineOutput
DefineOutput ==
  /\ pc = "load"
  /\ \E name \in OutputNames, ctor \in OutputCtors :
       LET r == defineOutput(outputs, name, ctor)
       IN /\ outputs' = r.outputs
          /\ defineOutputCall' = [name |-> name, ctor |-> ctor,
                                  before |-> outputs, threw |-> r.threw]
  /\ UNCHANGED <<linkVars, hooks>>
  /\ UNCHANGED navVars
  /\ UNCHANGED <<pluginVars, inflight>>
  /\ UNCHANGED <<project, readme, targets, cleanOutputDir, pc, tgt, output,
                 constructed, router, location, docIdx, contents,
                 preRenderAsyncJobs, postRenderAsyncJobs, fs, log, trace>>

NextRegistry == DefineOutput

SpecRegistry == InitRegistry /\ [][NextRegistry]_vars

\* ------------------------------------------------- navigation
MaxNavCalls == 3

\* the projects getNavigation is called with: no child, one class, a class
\* and a function
NavProjects ==
  { EmptyGraph(TRUE),
    Attach(EmptyGraph(TRUE), Project, "Class", "A"),
    Attach(Attach(EmptyGraph(TRUE), Project, "Class", "A"), Project, "Function", "B") }

\* the value counts as set only when it is a non-empty array
truthyNonEmpty(c) == c.defined /\ c.tree # <<>>

\* html-output.ts 697: the test of ||= on _navigationCache; an array, the
\* empty one included, is truthy and undefined is not
truthy(c) == c.defined

\* buildNavigation: one element per top-level child of the project, its
\* label the alias and its path the URL the router holds for it
buildNavigation(g, rt) ==
  LET cs == Children(g, Project)
  IN [i \in DOMAIN cs |->
        [text |-> getAlias(g, cs[i]), path |-> MapGet(rt.urls, cs[i])]]

\* an HtmlOutput just constructed, its router holding the documents of the
\* project
InitNavigation ==
  /\ project \in NavProjects
  /\ readme \in {"none", "README.md"}
  /\ router = getDocuments(project, readme)
  /\ targets = <<"html">>
  /\ cleanOutputDir = FALSE
  /\ pc = "navigation"
  /\ tgt = 1
  /\ output = [type |-> "html", id |-> 1]
  /\ constructed = 1
  /\ location = <<>>
  /\ docIdx = 0
  /\ contents = ""
  /\ preRenderAsyncJobs = <<>>
  /\ postRenderAsyncJobs = <<>>
  /\ fs = [t \in DOMAIN targets |-> {}]
  /\ log = <<>>
  /\ trace = <<>>
  /\ cacheBust = FALSE
  /\ absoluteToRelativePathMap = <<>>
  /\ relativeUrlCall = NoCall
  /\ calls = 0
  /\ outputs = builtinOutputs
  /\ defineOutputCall = NoDefine
  /\ hooks = {}
  /\ navigationCache = NoNavigation
  /\ buildNavigationCalls = 0
  /\ getNavigationCall = NoNavigationCall
  /\ plugins = <<>>
  /\ pluginIdx = 0
  /\ inflight = <<>>

\* html-output.ts 694-699: HtmlOutput.getNavigation(project)
GetNavigation ==
  /\ pc = "navigation"
  /\ getNavigationCall.n < MaxNavCalls
  /\ \E g \in NavProjects :
       LET build == ~ truthy(navigationCache)
           cache == IF build
                    THEN [defined |-> TRUE, tree |-> buildNavigation(g, router)]
                    ELSE navigationCache
       IN /\ navigationCache' = cache
          /\ buildNavigationCalls' = buildNavigationCalls + (IF build THEN 1 ELSE 0)
          /\ getNavigationCall' = [n |-> getNavigationCall.n + 1, project |-> g.n,
                                   result |-> cache.tree, built |-> build]
  /\ UNCHANGED <<linkVars, registryVars, hooks>>
  /\ UNCHANGED <<pluginVars, inflight>>
  /\ UNCHANGED <<project, readme, targets, cleanOutputDir, pc, tgt, output,
                 constructed, router, location, docIdx, contents,
                 preRenderAsyncJobs, postRenderAsyncJobs, fs, log, trace>>

\* the addressing state changes between two getNavigation calls: the router
\* routes another project
NavigationReroute ==
  /\ pc = "navigation"
  /\ \E g \in NavProjects :
       /\ project' = g
       /\ router' = getDocumentsOn(g, readme, router)
  /\ UNCHANGED <<linkVars, registryVars, hooks>>
  /\ UNCHANGED navVars
  /\ UNCHANGED <<pluginVars, inflight>>
  /\ UNCHANGED <<readme, targets, cleanOutputDir, pc, tgt, output,
                 constructed, location, docIdx, contents,
                 preRenderAsyncJobs, postRenderAsyncJobs, fs, log, trace>>

NextNavigation ==
  \/ GetNavigation
  \/ NavigationReroute

SpecNavigation == InitNavigation /\ [][NextNavigation]_vars

\* ------------------------------------------------- plugin loading
MaxPlugins == 3

\* how a plugin behaves when loaded: it loads; require throws; require
\* throws ERR_REQUIRE_ESM and import works; the import rejects; the module
\* has no load function; the module exports null; load throws an Error; load
\* rejects with a value that is no Error
PluginBehaviours ==
  {"ok", "requireThrows", "esm", "importRejects", "noLoad", "exportsNull",
   "loadThrows", "loadRejects"}

PluginLists == UNION {[1 .. n -> PluginBehaviours] : n \in 1 .. MaxPlugins}

\* plugins.ts 97-110: require(plugin), import(esmPath) after ERR_REQUIRE_ESM
Required(b) == b \notin {"requireThrows", "importRejects"}

\* plugins.ts 111: instance.load can be read
HasExports(b) == b # "exportsNull"

\* plugins.ts 113: typeof initFunction === "function"
HasLoadFunction(b) == b # "noLoad"

\* plugins.ts 114: await initFunction(app) returns
LoadReturns(b) == b \notin {"loadThrows", "loadRejects"}

\* plugins.ts 126: error instanceof Error && error.stack
HasStack(b) == b # "loadRejects"

InitPlugins ==
  /\ plugins \in PluginLists
  /\ pluginIdx = 1
  /\ pc = "loadPlugins"
  /\ project = EmptyGraph(TRUE)
  /\ readme = "none"
  /\ targets = <<"html">>
  /\ cleanOutputDir = FALSE
  /\ tgt = 1
  /\ output = NoOutput
  /\ constructed = 0
  /\ router = NoRouter
  /\ location = <<>>
  /\ docIdx = 0
  /\ contents = ""
  /\ preRenderAsyncJobs = <<>>
  /\ postRenderAsyncJobs = <<>>
  /\ fs = [t \in DOMAIN targets |-> {}]
  /\ log = <<>>
  /\ trace = <<>>
  /\ cacheBust = FALSE
  /\ absoluteToRelativePathMap = <<>>
  /\ relativeUrlCall = NoCall
  /\ calls = 0
  /\ outputs = builtinOutputs
  /\ defineOutputCall = NoDefine
  /\ hooks = {}
  /\ navigationCache = NoNavigation
  /\ buildNavigationCalls = 0
  /\ getNavigationCall = NoNavigationCall
  /\ inflight = <<>>

\* the log lines one iteration of the loop leaves for plugin i
PluginLog(i, b) ==
  IF Required(b) /\ HasExports(b) /\ ~ HasLoadFunction(b)
  THEN <<Logged("error", "Invalid structure in plugin", i)>>
  ELSE IF Required(b) /\ HasExports(b) /\ LoadReturns(b)
  THEN <<Logged("info", "Loaded plugin", i)>>
  ELSE <<Logged("error", "could not be loaded", i)>>
         \o (IF HasStack(b) THEN <<Logged("error", "stack", i)>> ELSE <<>>)

\* the steps of one iteration for plugin i
PluginSteps(i, b) ==
  <<Ev("require", i)>>
    \o (IF Required(b) /\ HasExports(b) /\ HasLoadFunction(b)
        THEN <<Ev("initFunction", i)>> ELSE <<>>)

\* the loop without its try/catch: a failing plugin ends loadPlugins
LoadPluginUncaught ==
  /\ pc = "loadPlugins"
  /\ pluginIdx \in DOMAIN plugins
  /\ LET b == plugins[pluginIdx]
         failed == ~ (Required(b) /\ HasExports(b) /\ (HasLoadFunction(b) => LoadReturns(b)))
     IN /\ trace' = trace \o PluginSteps(pluginIdx, b)
        /\ log' = IF failed THEN log ELSE log \o PluginLog(pluginIdx, b)
        /\ pluginIdx' = IF failed THEN pluginIdx ELSE pluginIdx + 1
        /\ pc' = IF failed THEN "rejected"
                 ELSE IF pluginIdx = Len(plugins) THEN "loaded" ELSE "loadPlugins"
  /\ UNCHANGED <<linkVars, registryVars, hooks>>
  /\ UNCHANGED navVars
  /\ UNCHANGED <<plugins, inflight>>
  /\ UNCHANGED <<project, readme, targets, cleanOutputDir, tgt, output,
                 constructed, router, location, docIdx, contents,
                 preRenderAsyncJobs, postRenderAsyncJobs, fs>>

\* plugins.ts 92-130: one iteration of the loop of loadPlugins
LoadPlugin ==
  /\ pc = "loadPlugins"
  /\ pluginIdx \in DOMAIN plugins
  /\ LET b == plugins[pluginIdx]
     IN /\ trace' = trace \o PluginSteps(pluginIdx, b)
        /\ log' = log \o PluginLog(pluginIdx, b)
  /\ pluginIdx' = pluginIdx + 1
  /\ pc' = IF pluginIdx = Len(plugins) THEN "loaded" ELSE "loadPlugins"
  /\ UNCHANGED <<linkVars, registryVars, hooks>>
  /\ UNCHANGED navVars
  /\ UNCHANGED <<plugins, inflight>>
  /\ UNCHANGED <<project, readme, targets, cleanOutputDir, tgt, output,
                 constructed, router, location, docIdx, contents,
                 preRenderAsyncJobs, postRenderAsyncJobs, fs>>

NextPlugins == LoadPlugin

SpecPlugins == InitPlugins /\ [][NextPlugins]_vars

\* ------------------------------------------------- calls in flight at once
MaxInflight == 2

\* the locals of a writeOutput call that has not started
NotStarted == [pc |-> "begin", own |-> 0, docIdx |-> 0]

\* a step of call c that used the Output instance inst
Used(e, c, inst, d) == [ev |-> e, c |-> c, inst |-> inst, d |-> d]

\* two writeOutput calls for html targets made without awaiting the first,
\* for a project with one class: index.html and classes/A.html
InitConcurrent ==
  /\ inflight = [c \in 1 .. MaxInflight |-> NotStarted]
  /\ project = Attach(EmptyGraph(TRUE), Project, "Class", "A")
  /\ readme = "none"
  /\ router = getDocuments(project, readme)
  /\ targets = [c \in 1 .. MaxInflight |-> "html"]
  /\ cleanOutputDir = FALSE
  /\ pc = "inflight"
  /\ tgt = 1
  /\ output = NoOutput
  /\ constructed = 0
  /\ location = <<>>
  /\ docIdx = 0
  /\ contents = ""
  /\ preRenderAsyncJobs = <<>>
  /\ postRenderAsyncJobs = <<>>
  /\ fs = [t \in DOMAIN targets |-> {}]
  /\ log = <<>>
  /\ trace = <<>>
  /\ cacheBust = FALSE
  /\ absoluteToRelativePathMap = <<>>
  /\ relativeUrlCall = NoCall
  /\ calls = 0
  /\ outputs = builtinOutputs
  /\ defineOutputCall = NoDefine
  /\ hooks = {}
  /\ navigationCache = NoNavigation
  /\ buildNavigationCalls = 0
  /\ getNavigationCall = NoNavigationCall
  /\ plugins = <<>>
  /\ pluginIdx = 0

\* what the steps of the calls in flight leave alone
InflightFrame ==
  /\ UNCHANGED <<linkVars, registryVars, hooks>>
  /\ UNCHANGED navVars
  /\ UNCHANGED pluginVars
  /\ UNCHANGED <<project, readme, targets, cleanOutputDir, pc, tgt, router,
                 location, docIdx, contents, preRenderAsyncJobs,
                 postRenderAsyncJobs, fs, log>>

\* html-output.ts 1288-1289: BEGIN, then the call waits for the pre-render jobs
InflightBegin(c) ==
  /\ inflight[c].pc = "begin"
  /\ inflight' = [inflight EXCEPT ![c].pc = "resolve"]
  /\ trace' = Append(trace, Used("beginRender", c, output.id, 0))
  /\ UNCHANGED <<output, constructed>>
  /\ InflightFrame

\* html-output.ts 1291-1300: this.output = new ctor(...), then the call
\* waits for this.output.setup
InflightSetup(c) ==
  /\ inflight[c].pc = "resolve"
  /\ output' = [type |-> targets[c], id |-> constructed + 1]
  /\ constructed' = constructed + 1
  /\ inflight' = [inflight EXCEPT ![c].pc = "route", ![c].own = constructed + 1]
  /\ trace' = Append(trace, Used("setup", c, constructed + 1, 0))
  /\ InflightFrame

\* a step of call c that calls a method of this.output: a TypeError when
\* this.output is undefined by then
OnOutput(c, e, d, next) ==
  IF output = NoOutput
  THEN /\ inflight' = [inflight EXCEPT ![c].pc = "rejected"]
       /\ trace' = Append(trace, Used("throw", c, 0, d))
  ELSE /\ inflight' = [inflight EXCEPT ![c].pc = next, ![c].docIdx = d]
       /\ trace' = Append(trace, Used(e, c, output.id, d))

\* html-output.ts 1301-1308: this.output.buildRouter, getDocuments, then the
\* call waits for prepareOutputDirectory
InflightRoute(c) ==
  /\ inflight[c].pc = "route"
  /\ OnOutput(c, "buildRouter", 0, "page")
  /\ UNCHANGED <<output, constructed>>
  /\ InflightFrame

\* html-output.ts 1318-1323: the next document, then the call waits for
\* this.output.render(doc)
InflightRender(c) ==
  /\ inflight[c].pc = "page"
  /\ inflight[c].docIdx < Len(documents)
  /\ OnOutput(c, "render", inflight[c].docIdx + 1, "page")
  /\ UNCHANGED <<output, constructed>>
  /\ InflightFrame

\* html-output.ts 1336-1337: after the last document END, then the call
\* waits for this.output.teardown
InflightTeardown(c) ==
  /\ inflight[c].pc = "page"
  /\ inflight[c].docIdx = Len(documents)
  /\ OnOutput(c, "teardown", inflight[c].docIdx, "postJobs")
  /\ UNCHANGED <<output, constructed>>
  /\ InflightFrame

\* html-output.ts 1338: the call waits for the post-render jobs
InflightPostJobs(c) ==
  /\ inflight[c].pc = "postJobs"
  /\ inflight' = [inflight EXCEPT ![c].pc = "finish"]
  /\ UNCHANGED <<output, constructed, trace>>
  /\ InflightFrame

\* html-output.ts 1340-1347: this.output = undefined, the call returns
InflightFinish(c) ==
  /\ inflight[c].pc = "finish"
  /\ output' = NoOutput
  /\ inflight' = [inflight EXCEPT ![c].pc = "returned"]
  /\ trace' = Append(trace, Used("return", c, 0, 0))
  /\ UNCHANGED constructed
  /\ InflightFrame

NextConcurrent ==
  \/ \E c \in DOMAIN inflight : InflightBegin(c)
  \/ \E c \in DOMAIN inflight : InflightSetup(c)
  \/ \E c \in DOMAIN inflight : InflightRoute(c)
  \/ \E c \in DOMAIN inflight : InflightRender(c)
  \/ \E c \in DOMAIN inflight : InflightTeardown(c)
  \/ \E c \in DOMAIN inflight : InflightPostJobs(c)
  \/ \E c \in DOMAIN inflight : InflightFinish(c)

SpecConcurrent == InitConcurrent /\ [][NextConcurrent]_vars

\* ------------------------------------------------------------ properties
Has(e, t) == \E i \in DOMAIN trace : trace[i].ev = e /\ trace[i].t = t
HasDoc(e, t, d) ==
  \E i \in DOMAIN trace : trace[i].ev = e /\ trace[i].t = t /\ trace[i].d = d
Count(e, t) ==
  Cardinality({i \in DOMAIN trace : trace[i].ev = e /\ trace[i].t = t})
Earlier(e, t, i) ==
  \E j \in 1 .. (i - 1) : trace[j].ev = e /\ trace[j].t = t

\* the documents the router of each target returns
DocsOf == [t \in DOMAIN targets |-> RouterDocuments(targets[t], project, readme).outputs]

PageStepNames ==
  <<"setCurrentDocument", "beginPage", "render", "endPage", "write">>
PageEvents == {"setCurrentDocument", "beginPage", "render", "endPage", "write",
               "writeFailed"}
IsPageStep(x) == x.ev \in PageEvents
PageSteps(t) == SelectSeq(trace, LAMBDA x : x.t = t /\ IsPageStep(x))
WriteAttempt(e) == IF e = "writeFailed" THEN "write" ELSE e

\* C1: the documents of a target are processed one after another in the
\* order of the router's list, each as setCurrentDocument, beginPage, render,
\* endPage, write (or failed write), and a write goes to the document's own
\* filename with the contents of its page event.
C1_DocumentsInRouterOrder ==
  LET docs == DocsOf
  IN /\ \A t \in DOMAIN targets :
          LET s == PageSteps(t)
              n == Len(PageStepNames)
          IN /\ Len(s) <= n * Len(docs[t])
             /\ \A k \in DOMAIN s :
                  /\ s[k].d = ((k - 1) \div n) + 1
                  /\ WriteAttempt(s[k].ev) = PageStepNames[((k - 1) % n) + 1]
     /\ (trace # <<>> /\ trace[Len(trace)].ev = "write") =>
          LET e == trace[Len(trace)]
          IN [name |-> Join(docs[e.t][e.d].filename), content |-> contents] \in fs[e.t]

\* a target whose second document was written after the write of its first
\* document failed
C1_Witness ==
  \E t \in DOMAIN targets :
    /\ HasDoc("writeFailed", t, 1)
    /\ HasDoc("write", t, 2)
    /\ Len(DocsOf[t]) > 2

OpeningRank(e) ==
  CASE e = "construct" -> 1
    [] e = "setup" -> 2
    [] e = "getDocuments" -> 3
    [] e = "beginRender" -> 4
    [] e = "preJob" -> 5
    [] e \in {"rm", "mkdir"} -> 6
    [] e = "setCurrentDocument" -> 7
    [] OTHER -> 0

\* C2: in every run the backend is constructed and set up, then the router
\* returns the documents, then beginRender fires, then the pre-render jobs
\* run, then the directory is prepared, then the first document is rendered.
C2_OpeningPhasesInOrder ==
  /\ \A i, j \in DOMAIN trace :
       (/\ trace[i].t = trace[j].t
        /\ OpeningRank(trace[i].ev) > 0
        /\ OpeningRank(trace[i].ev) < OpeningRank(trace[j].ev)) => i < j
  /\ \A j \in DOMAIN trace :
       trace[j].ev = "beginRender" => Earlier("getDocuments", trace[j].t, j)

\* C3: endRender fires after every document was rendered and its write
\* attempted, teardown of a run that rendered comes after endRender, and the
\* post-render jobs run after teardown.
C3_ClosingPhasesInOrder ==
  LET docs == DocsOf
  IN \A i \in DOMAIN trace :
       LET e == trace[i]
       IN /\ e.ev = "endRender" =>
               \A d \in DOMAIN docs[e.t] :
                 \E k \in 1 .. (i - 1) :
                   /\ trace[k].ev \in {"write", "writeFailed"}
                   /\ trace[k].t = e.t /\ trace[k].d = d
                   /\ \E j \in 1 .. (k - 1) :
                        /\ trace[j].ev = "render"
                        /\ trace[j].t = e.t /\ trace[j].d = d
          /\ (e.ev = "teardown" /\ Earlier("setCurrentDocument", e.t, i)) =>
               Earlier("endRender", e.t, i)
          /\ e.ev = "postJob" => Earlier("teardown", e.t, i)

\* a post-render job has run for a target of three documents
C3_Witness ==
  \E t \in DOMAIN targets : Has("postJob", t) /\ Len(DocsOf[t]) > 2

\* C4: when a beginRender listener runs, Renderer.output is the backend that
\* renders this target.
C4_OutputSetAtBeginRender ==
  \A i \in DOMAIN trace :
    trace[i].ev = "beginRender" =>
      /\ trace[i].o # NoOutput.id
      /\ \A j \in DOMAIN trace :
           (trace[j].t = trace[i].t /\ trace[j].ev = "render") =>
             trace[j].o = trace[i].o

\* C5: a target whose backend name is unknown logs an error and is aborted
\* with no pre-render job run, no directory cleaned or created and no file
\* written for it, and the targets after it are still processed.
C5_UnknownBackendNoEffect ==
  \A t \in DOMAIN targets :
    Has("skipped", t) =>
      /\ \E k \in DOMAIN log : log[k].t = t /\ log[k].level = "error"
      /\ ~ \E i \in DOMAIN trace :
             /\ trace[i].t = t
             /\ trace[i].ev \in {"preJob", "rm", "mkdir", "write", "writeFailed"}
      /\ fs[t] = StaleFiles
      /\ t < Len(targets) => tgt > t

\* C6: when preparing the directory fails no document of the target is
\* rendered and no page event fires, and teardown has been called exactly
\* once when writeOutput is over.
C6_DirectoryFailureAborts ==
  \A t \in DOMAIN targets :
    Has("dirFailed", t) =>
      /\ ~ \E i \in DOMAIN trace :
             trace[i].t = t /\ (IsPageStep(trace[i]) \/ trace[i].ev = "endRender")
      /\ (tgt # t \/ pc \in {"done", "rejected"}) => Count("teardown", t) = 1

\* writeOutput has returned for a target whose directory could not be prepared
C6_Witness ==
  \E t \in DOMAIN targets : Has("dirFailed", t) /\ Has("return", t)

\* no later written document of the target has the filename of document d
LastWriteOfName(ds, t, d) ==
  ~ \E d2 \in DOMAIN ds :
      /\ d2 > d
      /\ ds[d2].filename = ds[d].filename
      /\ HasDoc("write", t, d2)

\* C7: a failed write is logged once and the run goes on with the next
\* document (or endRender); a run that ends normally has rendered every
\* document, attempted every write, holds the contents of the documents
\* whose write succeeded, and has fired endRender and called teardown.
C7_WriteFailureIsolated ==
  LET docs == DocsOf
  IN /\ \A i \in DOMAIN trace :
          trace[i].ev = "writeFailed" =>
            /\ Cardinality({k \in DOMAIN log :
                              /\ log[k].msg = "Could not write"
                              /\ log[k].t = trace[i].t
                              /\ log[k].d = trace[i].d}) = 1
            /\ i < Len(trace) =>
                 IF trace[i].d < Len(docs[trace[i].t])
                 THEN /\ trace[i + 1].ev = "setCurrentDocument"
                      /\ trace[i + 1].d = trace[i].d + 1
                 ELSE trace[i + 1].ev = "endRender"
     /\ \A t \in DOMAIN targets :
          Has("wrote", t) =>
            /\ Has("endRender", t) /\ Has("teardown", t)
            /\ \A d \in DOMAIN docs[t] :
                 /\ HasDoc("render", t, d)
                 /\ HasDoc("write", t, d) \/ HasDoc("writeFailed", t, d)
                 /\ (HasDoc("write", t, d) /\ LastWriteOfName(docs[t], t, d)) =>
                      [name |-> Join(docs[t][d].filename),
                       content |-> triggerPageEnd([type |-> targets[t]],
                                                 render([type |-> targets[t]], docs[t][d]))] \in fs[t]

\* a run of three documents ended normally although exactly the write of the
\* second one failed
C7_Witness ==
  \E t \in DOMAIN targets :
    /\ Has("wrote", t)
    /\ Len(DocsOf[t]) = 3
    /\ HasDoc("write", t, 1) /\ HasDoc("writeFailed", t, 2) /\ HasDoc("write", t, 3)

UncaughtSteps ==
  {"preJob", "setup", "getDocuments", "beginPage", "render", "endPage",
   "teardown", "postJob"}

C9_CleanRemovesStaleAlways ==
  \A t \in DOMAIN targets :
    (cleanOutputDir /\ Has("wrote", t)) => fs[t] \cap StaleFiles = {}

ProducedNames(ds) ==
  {Join(ds[d].filename) : d \in DOMAIN ds}
    \cup {"assets/style.css", "assets/search.js"}

\* C9 amended: with clean set and more than one document returned by the
\* router, no file from before the run is left when writeOutput has
\* completed, and every file left was produced by the run.
C9_CleanRemovesStaleWhenSeveralDocuments ==
  cleanOutputDir =>
    LET docs == DocsOf
    IN \A t \in DOMAIN targets :
         (Has("wrote", t) /\ Len(docs[t]) > 1) =>
           /\ fs[t] \cap StaleFiles = {}
           /\ \A f \in fs[t] : f.name \in ProducedNames(docs[t]) /\ f.content # "stale"

\* a cleaned run completed although the write of index.html failed
C9_Witness ==
  \E t \in DOMAIN targets :
    /\ cleanOutputDir
    /\ Has("wrote", t)
    /\ Len(DocsOf[t]) > 1
    /\ HasDoc("writeFailed", t, 1)

\* C10: after getDocuments, distinct entities that own a document have
\* different URLs and the documents have pairwise different paths.
C10_DocumentUrlsUnique ==
  pc = "routed" =>
    /\ \A e1, e2 \in router.hasOwnDocument :
         e1 # e2 => router.urls[e1] # router.urls[e2]
    /\ \A i, j \in DOMAIN router.outputs :
         i # j => router.outputs[i].filename # router.outputs[j].filename

\* C23: the pre-render jobs of a run are each invoked once, before any file
\* of the run is written, the list is empty once the batch is over, and no
\* job is invoked in more than one run.
C23_PreRenderJobsOneShot ==
  /\ \A i \in DOMAIN trace :
       trace[i].ev = "preJob" =>
         /\ ~ \E j \in 1 .. (i - 1) :
                /\ trace[j].t = trace[i].t
                /\ trace[j].ev \in {"rm", "mkdir", "write", "writeFailed"}
         /\ \A j \in DOMAIN trace :
              (trace[j].ev = "preJob" /\ trace[j].job = trace[i].job) => j = i
  /\ (pc # "preJobs" /\ \E i \in DOMAIN trace : trace[i].ev = "preJob") =>
       preRenderAsyncJobs = <<>>

\* C24: whenever writeOutput returns, also for a target aborted for an
\* unknown backend or a directory failure, postRenderAsyncJobs is empty.
C24_PostRenderJobsClearedOnReturn ==
  (trace # <<>> /\ trace[Len(trace)].ev = "return") => postRenderAsyncJobs = <<>>

\* C25: while a document d is rendered and while its endPage listeners
\* run, the router's location is the directory of d.filename, and the
\* relativeUrl call the template made while rendering d gave the path from
\* that directory to its target.
C25_LinksRelativeToDocumentBeingRendered ==
  pc \in {"render", "pageEnd"} =>
    LET f == documents[docIdx].filename
        dir == IF Len(f) <= 1 THEN <<".">> ELSE SubSeq(f, 1, Len(f) - 1)
    IN /\ location = dir
       /\ trace[Len(trace)].d = docIdx
       /\ (pc = "pageEnd" /\ IsHtmlOutput(output)) =>
            /\ relativeUrlCall.location = dir
            /\ relativeUrlCall.path =
                 Join(relative(dir, relativeUrlCall.absolute))

\* the page classes/A.html has been rendered and its stylesheet link leads
\* one directory up
C25_Witness ==
  /\ pc = "pageEnd"
  /\ documents[docIdx].filename = <<"classes", "A.html">>
  /\ location = <<"classes">>
  /\ relativeUrlCall.path = "../assets/style.css"

\* C26: a hook subscription made during the render of one document is
\* discarded at the end of that render: the subscriptions an output holds
\* were all made for the document being rendered right now.
C26_PageHooksDiscardedAfterRender ==
  output # NoOutput =>
    \A s \in hooks : pc \in {"render", "pageEnd"} /\ s.d = docIdx

C29_WrittenContentIsAfterEndPage ==
  (trace # <<>> /\ trace[Len(trace)].ev = "write") =>
    LET e == trace[Len(trace)]
        doc == DocsOf[e.t][e.d]
        rendered == render([type |-> targets[e.t]], doc)
    IN /\ contents = rendered \o EndPageMark
       /\ [name |-> Join(doc.filename), content |-> rendered \o EndPageMark] \in fs[e.t]

\* the page classes/A.html of an html target has just been written
C29_Witness ==
  /\ trace # <<>>
  /\ trace[Len(trace)].ev = "write"
  /\ targets[trace[Len(trace)].t] = "html"
  /\ DocsOf[trace[Len(trace)].t][trace[Len(trace)].d].filename = <<"classes", "A.html">>

\* C31: the output directory is prepared (emptied when cleanOutputDir is
\* set, then created) exactly when the router returned more than one
\* document; for a json target, whose router returns one document with
\* filename "", nothing is deleted or created at the target path and the
\* result is written at the target path itself.
C31_DirectoryPreparedIffSeveralDocuments ==
  LET docs == DocsOf
  IN \A t \in DOMAIN targets :
       /\ (Has("rm", t) \/ Has("mkdir", t)) => Len(docs[t]) > 1
       /\ (HasDoc("setCurrentDocument", t, 1) /\ Len(docs[t]) > 1) =>
            /\ Has("mkdir", t)
            /\ cleanOutputDir => Has("rm", t)
       /\ targets[t] = "json" =>
            /\ Len(docs[t]) = 1
            /\ docs[t][1].filename = <<>>
            /\ ~ Has("rm", t) /\ ~ Has("mkdir", t)
            /\ StaleFiles \subseteq fs[t]
            /\ {f.name : f \in fs[t]} \subseteq
                 {f.name : f \in StaleFiles} \cup {"", "assets/prepared.js"}
            /\ HasDoc("write", t, 1) <=> (\E f \in fs[t] : f.name = "")

\* a json target wrote its result with cleanOutputDir set, after an html
\* target with several documents had its directory emptied and created
C31_Witness ==
  /\ cleanOutputDir
  /\ Len(targets) = 2 /\ targets[1] = "html" /\ targets[2] = "json"
  /\ Has("rm", 1) /\ Has("mkdir", 1) /\ HasDoc("write", 1, 3)
  /\ HasDoc("write", 2, 1) /\ Has("return", 2)

\* C34: when writeOutput has returned for a target, its one beginRender
\* event was followed by exactly one endRender event, on every path.
C34_BeginRenderPairedWithEndRender ==
  \A t \in DOMAIN targets :
    Has("return", t) =>
      /\ Count("beginRender", t) = 1
      /\ Count("endRender", t) = 1
      /\ \A i \in DOMAIN trace :
           (trace[i].t = t /\ trace[i].ev = "endRender") => Earlier("beginRender", t, i)

\* C36: no registered pre-render job is lost: a job that was on the list
\* before the run or was pushed by another job while the batch was running
\* is still on the list or has been called.
C36_NoRegisteredJobLost ==
  LET called == {trace[k].job : k \in {i \in DOMAIN trace : trace[i].ev = "preJob"}}
      listed == {preRenderAsyncJobs[k] : k \in DOMAIN preRenderAsyncJobs}
      pushed == {trace[k].job : k \in {i \in DOMAIN trace : trace[i].ev = "pushJob"}}
  IN \A job \in {"pushingJob", "userJob"} \cup pushed : job \in called \cup listed

\* C38: when writeOutput has completed for a target, the file a pre-render
\* job wrote under the target's output directory is still there, also with
\* cleanOutputDir set and several documents written.
C38_PreRenderJobFilesSurvive ==
  \A t \in DOMAIN targets :
    (Has("wrote", t)
       /\ \E i \in DOMAIN trace :
            trace[i].t = t /\ trace[i].ev = "preJob" /\ trace[i].job = "userJob") =>
      [name |-> "assets/prepared.js", content |-> "prepared"] \in fs[t]

\* ------------------------------------------------ routing properties
Reachable == {Project} \cup Nodes(project)
Routed == pc \in {"routed", "rerouted"}
Addressable(r) == r = Project \/ IsDeclaration(project, r) \/ IsSignature(project, r)
Mapped(r) == r \in Nodes(project) /\ project.kind[r] \in DOMAIN kindMappings
TopLevel == {r \in Nodes(project) : project.parent[r] = Project}
RootDocuments == {i \in DOMAIN router.outputs : router.outputs[i].model = Project}

\* the nearest ancestor of r that owns a document
RECURSIVE Owner(_)
Owner(r) ==
  IF project.parent[r] \in router.hasOwnDocument THEN project.parent[r]
  ELSE Owner(project.parent[r])

\* C11: within one document the anchors of the entities anchored into it are
\* pairwise distinct.
C11_AnchorsDistinctPerDocument ==
  Routed =>
    \A r1, r2 \in DOMAIN router.anchors :
      (r1 # r2 /\ Owner(r1) = Owner(r2)) => router.anchors[r1] # router.anchors[r2]

\* C12 as stated: after getDocuments every reachable entity either owns a
\* document or has an anchor, never both and never neither.
C12_ExactlyOneAddressType ==
  Routed =>
    \A r \in Reachable :
      (r \in router.hasOwnDocument) # (r \in DOMAIN router.anchors)

\* C12 amended: the root owns a document, every declaration and signature
\* either owns a document or has an anchor and never both, and every other
\* reflection (parameter, type parameter) has no document, anchor or URL.
C12_DeclarationsAndSignaturesAddressedOnce ==
  Routed =>
    /\ Project \in router.hasOwnDocument
    /\ \A r \in Reachable :
         IF Addressable(r)
         THEN (r \in router.hasOwnDocument) # (r \in DOMAIN router.anchors)
         ELSE /\ r \notin router.hasOwnDocument
              /\ r \notin DOMAIN router.anchors
              /\ r \notin DOMAIN router.urls

\* a routed graph with a document owner below the root, an anchored
\* signature and a parameter
C12_Witness ==
  /\ pc = "routed"
  /\ \E r \in Nodes(project) : r \in router.hasOwnDocument
  /\ \E r \in Nodes(project) : IsSignature(project, r) /\ r \in DOMAIN router.anchors
  /\ \E r \in Nodes(project) : ~ Addressable(r)

\* C13: the URL of an entity that owns a document is the path of a document
\* of that entity; the URL of any other addressed entity is the URL of its
\* nearest document-owning ancestor, then "#", then its anchor.
C13_UrlResolvesToDocumentOrAnchor ==
  Routed =>
    /\ DOMAIN router.urls = router.hasOwnDocument \cup DOMAIN router.anchors
    /\ \A r \in DOMAIN router.urls :
         IF r \in router.hasOwnDocument
         THEN \E i \in DOMAIN router.outputs :
                /\ router.outputs[i].model = r
                /\ Join(router.outputs[i].filename) = router.urls[r]
         ELSE router.urls[r] =
                router.urls[Owner(r)] \o "#" \o router.anchors[r]

\* a signature anchored two levels below the class that owns its document
C13_Witness ==
  /\ pc = "routed"
  /\ \E r \in DOMAIN router.anchors :
       /\ IsSignature(project, r)
       /\ project.parent[r] \notin router.hasOwnDocument
       /\ Owner(r) # Project

\* C16: a second getDocuments call on the same router, graph and options
\* returns the same document list and leaves the same URL and anchor tables.
C16_SecondCallReturnsTheSame == [][pc = "routed" => router' = router]_vars

\* the second call has returned for a graph with documents below the root
\* and anchored entities
C16_Witness ==
  /\ pc = "rerouted"
  /\ Len(router.outputs) > 2
  /\ DOMAIN router.anchors # {}

\* C17: with readme "none" the only root document is index.html with the
\* "reflection" template and the root resolves to it; with a single class
\* child the list is that document and the class's, at classes/<alias>.html.
C17_RootCaseA ==
  (Routed /\ readme \in EndsWithNone) =>
    /\ RootDocuments = {1}
    /\ router.outputs[1] = HtmlOutputDocument(Project, <<"index.html">>, "reflection")
    /\ router.urls[Project] = "index.html"
    /\ (project.n = 1 /\ project.kind[1] = "Class") =>
         /\ router.outputs =
              <<HtmlOutputDocument(Project, <<"index.html">>, "reflection"),
                HtmlOutputDocument(1, <<"classes", project.alias[1] \o ".html">>,
                                   "reflection")>>
         /\ router.urls[1] = "classes/" \o project.alias[1] \o ".html"

\* routed with readme "none" and a single class child
C17_Witness ==
  /\ pc = "routed"
  /\ readme = "none"
  /\ project.n = 1 /\ project.kind[1] = "Class"
  /\ Len(router.outputs) = 2

\* C18: with a readme and every top-level child a module, the only root
\* document is index.html with the "index" template, there is no
\* modules.html and the root resolves to index.html.
C18_RootCaseB ==
  (/\ Routed
   /\ readme \notin EndsWithNone
   /\ \A r \in TopLevel : project.kind[r] = "Module") =>
    /\ RootDocuments = {1}
    /\ router.outputs[1] = HtmlOutputDocument(Project, <<"index.html">>, "index")
    /\ \A i \in DOMAIN router.outputs : router.outputs[i].filename # <<"modules.html">>
    /\ router.urls[Project] = "index.html"

\* C19: with a readme and a top-level child that is not a module, the root
\* documents are index.html ("index") and modules.html ("reflection"), both
\* with the root as model, and the root resolves to modules.html.
C19_RootCaseC ==
  (/\ Routed
   /\ readme \notin EndsWithNone
   /\ \E r \in TopLevel : project.kind[r] # "Module") =>
    /\ RootDocuments = {1, 2}
    /\ router.outputs[1] = HtmlOutputDocument(Project, <<"index.html">>, "index")
    /\ router.outputs[2] = HtmlOutputDocument(Project, <<"modules.html">>, "reflection")
    /\ router.urls[Project] = "modules.html"

\* routed with a readme, a module and a class at the top level
C19_Witness ==
  /\ pc = "routed"
  /\ readme = "README.md"
  /\ \E r \in TopLevel : project.kind[r] = "Module"
  /\ \E r \in TopLevel : project.kind[r] = "Class"

\* C20 as stated: below the root, an entity of a document-worthy kind owns a
\* document and is not anchored, and any other entity owns no document.
C20_DocumentWorthyKindsOwnDocuments ==
  Routed =>
    \A r \in Nodes(project) :
      IF Mapped(r)
      THEN r \in router.hasOwnDocument /\ r \notin DOMAIN router.anchors
      ELSE r \notin router.hasOwnDocument

\* C20 amended: below the root, an entity owns a document exactly when its
\* kind is document-worthy and its parent is the root or owns a document;
\* an entity that owns a document is not anchored.
C20_DocumentWorthyUnderDocumentOwners ==
  Routed =>
    \A r \in Nodes(project) :
      /\ r \in router.hasOwnDocument <=>
           (Mapped(r) /\ project.parent[r] \in router.hasOwnDocument)
      /\ r \in router.hasOwnDocument => r \notin DOMAIN router.anchors

\* a class below a method of a class: anchored into the outer class's document
C20_Witness ==
  /\ pc = "routed"
  /\ \E r \in DOMAIN router.anchors :
       /\ Mapped(r)
       /\ Owner(r) # Project
       /\ Mapped(Owner(r))

\* the reflections from the outermost one below the root down to r
RECURSIVE Ancestry(_)
Ancestry(r) ==
  IF project.parent[r] = Project THEN <<r>>
  ELSE Append(Ancestry(project.parent[r]), r)

\* the part of the ancestry of r that lies below reflection o
Below(o, r) ==
  LET a == Ancestry(r)
  IN IF o = Project THEN a
     ELSE LET k == CHOOSE j \in DOMAIN a : a[j] = o
          IN SubSeq(a, k + 1, Len(a))

RECURSIVE DottedAliases(_)
DottedAliases(rs) ==
  IF Len(rs) = 1 THEN project.alias[rs[1]]
  ELSE DottedAliases(SubSeq(rs, 1, Len(rs) - 1)) \o "." \o project.alias[rs[Len(rs)]]

Descendants(r) ==
  {d \in Nodes(project) : d # r /\ \E j \in DOMAIN Ancestry(d) : Ancestry(d)[j] = r}

\* C21: below the root, the one document of a document owner is at
\* <directory of its kind>/<aliases of its ancestors and its own, joined by
\* dots>.html, and all of these ancestors own documents.
C21_DocumentPathIsKindDirectoryAndAliasChain ==
  Routed =>
    \A r \in router.hasOwnDocument \ {Project} :
      /\ \A j \in DOMAIN Ancestry(r) : Ancestry(r)[j] \in router.hasOwnDocument
      /\ Cardinality({i \in DOMAIN router.outputs : router.outputs[i].model = r}) = 1
      /\ \A i \in DOMAIN router.outputs :
           router.outputs[i].model = r =>
             router.outputs[i].filename =
               <<kindMappings[project.kind[r]], DottedAliases(Ancestry(r)) \o ".html">>

\* a class with its own document two levels below the root
C21_Witness ==
  /\ pc = "routed"
  /\ \E r \in router.hasOwnDocument \ {Project} :
       Len(Ancestry(r)) = 3 /\ project.kind[r] = "Class"

C39_AbsentAndEmptyChildrenAlike ==
  (/\ pc = "routed"
   /\ readme \notin EndsWithNone
   /\ project.n = 0) =>
    /\ router.outputs = getDocuments(EmptyGraph(~ project.hasChildren), readme).outputs
    /\ Len(router.outputs) = 1
    /\ router.outputs[1].template = "index"

\* ------------------------------------------------ link properties
Called == relativeUrlCall # NoCall
CacheSuffix == "?cache=" \o ToString(renderStartTime)

\* C14: relativeUrl(target) is the POSIX relative path from the directory of
\* the current document to the target: from "classes", functions/foo.html
\* gives ../functions/foo.html, classes/bar.html gives bar.html and the
\* directory itself gives ".".
C14_RelativePathFromCurrentDirectory ==
  (/\ Called
   /\ ~ relativeUrlCall.cacheBust
   /\ ~ URL_PREFIX(relativeUrlCall.absolute)) =>
    LET c == relativeUrlCall
    IN /\ (c.location = <<"classes">> /\ c.absolute = <<"functions", "foo.html">>)
            => c.path = "../functions/foo.html"
       /\ (c.location = <<"classes">> /\ c.absolute = <<"classes", "bar.html">>)
            => c.path = "bar.html"
       /\ (c.location = <<"classes">> /\ c.absolute = <<"classes">>)
            => c.path = "."
       /\ (c.location = <<".">> /\ c.absolute = <<"classes", "bar.html">>)
            => c.path = "classes/bar.html"

\* C15: for a non-external target the result carries the "?cache=<start>"
\* suffix exactly when the cacheBust argument is true and the cacheBust
\* option is enabled, whatever calls were made before.
C15_CacheBustSuffixIffRequestedAndEnabled ==
  (Called /\ ~ URL_PREFIX(relativeUrlCall.absolute)) =>
    LET c == relativeUrlCall
        rel == Join(relative(c.location, c.absolute))
        path == IF rel = "" THEN "." ELSE rel
    IN c.path = IF c.cacheBust /\ cacheBust THEN path \o CacheSuffix ELSE path

\* C35: the memo of relativeUrl is transparent: when every call so far was
\* made with the same cacheBust argument, the string a call returns is the
\* one a fresh computation of the relative path from the current directory
\* to the target gives, whatever the directory and the target are.
C35_MemoIsTransparent ==
  (/\ Called
   /\ ~ URL_PREFIX(relativeUrlCall.absolute)
   /\ Cardinality(relativeUrlCall.cbs) = 1) =>
    LET c == relativeUrlCall
        fresh == Join(relative(c.location, c.absolute))
        path == IF fresh = "" THEN "." ELSE fresh
    IN c.path = IF c.cacheBust /\ cacheBust THEN path \o CacheSuffix ELSE path

\* ------------------------------------------------ registry properties
Defined == defineOutputCall # NoDefine

\* C30: defineOutput(name, ctor) registers ctor under name when the name is
\* not yet defined, leaving every other entry as it was; when the name is
\* already defined, the built-in "html" and "json" included, it throws and
\* the registry is unchanged.
C30_DefineOutputRegistersOrThrows ==
  Defined =>
    LET c == defineOutputCall
    IN /\ c.threw <=> c.name \in DOMAIN c.before
       /\ c.threw => outputs = c.before
       /\ ~ c.threw =>
            /\ DOMAIN outputs = DOMAIN c.before \cup {c.name}
            /\ outputs[c.name] = c.ctor
            /\ \A n \in DOMAIN c.before : outputs[n] = c.before[n]
       /\ outputs["html"] = "DefaultHtmlOutput"
       /\ outputs["json"] = "JsonOutput"

\* a plugin defined "custom", and a later call for the built-in "html"
\* threw with "custom" still registered
C30_Witness ==
  /\ Defined
  /\ defineOutputCall.name = "html"
  /\ defineOutputCall.ctor = "MyOutput"
  /\ defineOutputCall.threw
  /\ "custom" \in DOMAIN outputs
  /\ outputs["custom"] = "DefaultHtmlOutput"

PluginLoads(b) == b \in {"ok", "esm"}

\* C33: loadPlugins attempts the plugins in the order given; a plugin that
\* fails to load (require or import fails, no load function, load throws or
\* rejects) leaves an error in the log and no "Loaded" line, a plugin that
\* loads leaves the "Loaded" line and no error, the plugins after a failed
\* one are attempted all the same, and loadPlugins never rejects.
C33_PluginFailuresIsolated ==
  /\ pc # "rejected"
  /\ pc = "loaded" => pluginIdx = Len(plugins) + 1
  /\ \A i \in DOMAIN plugins :
       LET errors == {k \in DOMAIN log : log[k].d = i /\ log[k].level = "error"}
           infos == {k \in DOMAIN log : log[k].d = i /\ log[k].level = "info"}
           tried == {k \in DOMAIN trace : trace[k].d = i /\ trace[k].ev = "require"}
       IN IF i < pluginIdx
          THEN /\ Cardinality(tried) = 1
               /\ PluginLoads(plugins[i]) => errors = {} /\ Cardinality(infos) = 1
               /\ ~ PluginLoads(plugins[i]) => errors # {} /\ infos = {}
          ELSE tried = {} /\ errors = {} /\ infos = {}
  /\ \A k \in DOMAIN trace : \A m \in DOMAIN trace : k < m => trace[k].d <= trace[m].d

\* the third plugin was loaded after require failed for the first and the
\* load function of the second rejected
C33_Witness ==
  /\ pc = "loaded"
  /\ plugins = <<"requireThrows", "loadRejects", "ok">>
  /\ \E k \in DOMAIN log : log[k].d = 3 /\ log[k].msg = "Loaded plugin"
  /\ \E k \in DOMAIN log : log[k].d = 1 /\ log[k].level = "error"
  /\ \E k \in DOMAIN log : log[k].d = 2 /\ log[k].level = "error"

\* ------------------------------------------------ properties of calls in flight
\* C37: two writeOutput calls in flight at once do not interfere: every
\* buildRouter, render and teardown of a call is made on the Output instance
\* that call constructed, and no call fails for want of an instance.
C37_CallsInFlightDoNotInterfere ==
  \A i \in DOMAIN trace :
    /\ trace[i].ev # "throw"
    /\ trace[i].ev \in {"buildRouter", "render", "teardown"} =>
         trace[i].inst = inflight[trace[i].c].own

====
